---- MODULE Spec2Model ----
(***************************************************************************)
(* Model of sktime's DWTTransformer (transformations/panel/dwt.py) and of  *)
(* the forecaster vectorization scenario of forecasting/base/tests/        *)
(* test_base.py.                                                           *)
(*                                                                         *)
(* Numbers.  The transform only adds, subtracts and divides by sqrt(2), so *)
(* every value lies in Q(sqrt 2).  A number is the pair <<p, q>> standing  *)
(* for (p + q*sqrt(2)) / Scale; Scale is a power of two large enough that  *)
(* every division the transform performs is exact.                         *)
(*                                                                         *)
(* Memory.  Python lists and numpy rows are objects: heap is the sequence  *)
(* of their contents and a reference is an index into it (0 is None).      *)
(* Objects 1..N are the rows of the caller's array.                        *)
(***************************************************************************)
EXTENDS Integers, Sequences, FiniteSets, TLC

\* ------------------------------------------------------------------ bounds
MaxInst == 2
MaxLen == 6
MaxLevels == 3

\* values a sample of the first instance may take
Values == {0, 1}

VARIABLES
    num_levels,   \* self.num_levels: [type, val]
    shape,        \* X.shape = <<n_instances, n_variables, n_timepoints>>
    X_in,         \* the caller's panel as it was when transform was called
    heap,         \* contents of every live list / array row
    pc,           \* position inside transform
    err,          \* exception raised, "none" if none
    arr,          \* rows of the numpyflat array (references)
    res,          \* res of _extract_wavelet_coefficients (references)
    idx,          \* position of `for x in data`
    coeffs, current, approx, wav_coeffs,   \* locals of the loop body (references)
    level,        \* iterations of `for _ in range(num_levels)` done
    levelIn,      \* argument of the last _get_*_coefficients calls (reference)
    Xt            \* array returned by _transform, <<>> before it returns

VARIABLES
    v_pc,         \* position inside the vectorization scenario
    v_mtype,      \* representation tag the test is parametrized with
    v_fh,         \* forecasting horizon passed to predict
    v_y,          \* the panel passed to fit
    v_series,     \* per-instance series the broadcaster split v_y into
    v_i,          \* instance the broadcaster works on
    v_fitted,     \* per-instance fitted estimator state
    v_preds,      \* per-instance forecasts
    v_pred,       \* y_pred returned by predict
    v_meta,       \* (valid, metadata) returned by check_is_mtype
    v_err         \* instance whose invocation failed, 0 if none

dwtVars == <<num_levels, shape, X_in, heap, pc, err, arr, res, idx, coeffs,
             current, approx, wav_coeffs, level, levelIn, Xt>>

vecVars == <<v_pc, v_mtype, v_fh, v_y, v_series, v_i, v_fitted, v_preds,
             v_pred, v_meta, v_err>>

vars == <<dwtVars, vecVars>>

\* ------------------------------------------------------------- arithmetic
RECURSIVE Pow2(_)
Pow2(k) == IF k = 0 THEN 1 ELSE 2 * Pow2(k - 1)

Scale == Pow2((MaxLevels + 2) \div 2)

ToNum(v) == <<v * Scale, 0>>

Add(a, b) == <<a[1] + b[1], a[2] + b[2]>>

Sub(a, b) == <<a[1] - b[1], a[2] - b[2]>>

\* (p + q*sqrt2) / sqrt2 = q + (p/2)*sqrt2
DivSqrt2(a) == <<a[2], a[1] \div 2>>

\* (p + q*sqrt2) * sqrt2 = 2q + p*sqrt2
MulSqrt2(a) == <<2 * a[2], a[1]>>

Half(a) == <<a[1] \div 2, a[2] \div 2>>

Reverse(s) == [i \in 1..Len(s) |-> s[Len(s) + 1 - i]]

\* ----------------------------------------------------- coefficient engine
GetApproxNoSingle(a) ==
    [x \in 1..(Len(a) \div 2) |-> DivSqrt2(Add(a[2 * x - 1], a[2 * x]))]

GetApproxPadded(a) ==
    IF Len(a) = 1 THEN <<a[1]>>
    ELSE [x \in 1..((Len(a) + 1) \div 2) |->
            DivSqrt2(Add(a[2 * x - 1],
                         IF 2 * x <= Len(a) THEN a[2 * x] ELSE <<0, 0>>))]

GetApproxCoefficients(a) ==
    IF Len(a) = 1 THEN <<a[1]>>
    ELSE [x \in 1..(Len(a) \div 2) |-> DivSqrt2(Add(a[2 * x - 1], a[2 * x]))]

GetWaveletNoSingle(a) ==
    [x \in 1..(Len(a) \div 2) |-> DivSqrt2(Sub(a[2 * x - 1], a[2 * x]))]

GetWaveletSwapped(a) ==
    IF Len(a) = 1 THEN <<a[1]>>
    ELSE [x \in 1..(Len(a) \div 2) |-> DivSqrt2(Sub(a[2 * x], a[2 * x - 1]))]

GetWaveletCoefficients(a) ==
    IF Len(a) = 1 THEN <<a[1]>>
    ELSE [x \in 1..(Len(a) \div 2) |-> DivSqrt2(Sub(a[2 * x - 1], a[2 * x]))]

\* `new = []; ...; return new`: the result is a list allocated by the call
NewListAliasingSingle(h, src, vals) ==
    IF Len(h[src]) = 1 THEN [heap |-> h, ref |-> src]
    ELSE [heap |-> Append(h, vals), ref |-> Len(h) + 1]

NewList(h, src, vals) == [heap |-> Append(h, vals), ref |-> Len(h) + 1]

\* ------------------------------------------------------------- parameters
IntParams == [type : {"int"}, val : (-2)..MaxLevels]

OtherParams ==
    { [type |-> "bool", val |-> 1], [type |-> "bool", val |-> 0],
      [type |-> "str", val |-> 3], [type |-> "float", val |-> 3],
      [type |-> "NoneType", val |-> 0] }

Params == IntParams \cup OtherParams

\* isinstance(v, int): bool is a subclass of int
IsInstanceInt(p) == p.type \in {"int", "bool"}

CheckParametersOffByOne(p) ==
    IF IsInstanceInt(p)
    THEN IF p.val <= 0 THEN "ValueError" ELSE "none"
    ELSE "TypeError"

CheckParameters(p) ==
    IF IsInstanceInt(p)
    THEN IF p.val <= -1 THEN "ValueError" ELSE "none"
    ELSE "TypeError"

IsZeroLevelsWrong(p) == p.val < 0

IsZeroLevels(p) == p.val = 0

\* ------------------------------------------------------------------ panel
N == shape[1]

FlatLen == shape[2] * shape[3]

\* C-order flattening of one instance (variables x timepoints)
FlattenInstance(inst) ==
    [k \in 1..(Len(inst) * Len(inst[1])) |->
        inst[((k - 1) \div Len(inst[1])) + 1][((k - 1) % Len(inst[1])) + 1]]

Shapes ==
    { <<n, d, m>> \in (1..MaxInst) \X (1..MaxLen) \X (1..MaxLen) : d * m <= MaxLen }

MakePanel(sh, seed) ==
    [i \in 1..sh[1] |-> [v \in 1..sh[2] |-> [t \in 1..sh[3] |->
        ToNum(seed[(v - 1) * sh[3] + t] + (i - 1) * Cardinality(Values))]]]

\* np.asarray(list of rows) then reshape((shape[0], shape[1], 1))
ReshapeTrailingOne(rows) ==
    [i \in 1..Len(rows) |-> [j \in 1..Len(rows[i]) |-> <<rows[i][j]>>]]

\* ---------------------------------------------------------------- actions
VecIdle ==
    /\ v_pc = "idle"
    /\ v_mtype = "none"
    /\ v_fh = <<>>
    /\ v_y = <<>>
    /\ v_series = <<>>
    /\ v_i = 0
    /\ v_fitted = <<>>
    /\ v_preds = <<>>
    /\ v_pred = <<>>
    /\ v_meta = <<>>
    /\ v_err = 0

Init ==
    /\ num_levels \in Params
    /\ shape \in Shapes
    /\ \E seed \in [1..(shape[2] * shape[3]) -> Values] :
          X_in = MakePanel(shape, seed)
    /\ heap = [i \in 1..shape[1] |-> FlattenInstance(X_in[i])]
    /\ pc = "check"
    /\ err = "none"
    /\ arr = <<>>
    /\ res = <<>>
    /\ idx = 0
    /\ coeffs = 0 /\ current = 0 /\ approx = 0 /\ wav_coeffs = 0
    /\ level = 0
    /\ levelIn = 0
    /\ Xt = <<>>
    /\ VecIdle

\* self._check_parameters()
DoCheckParameters ==
    /\ pc = "check"
    /\ err' = CheckParameters(num_levels)
    /\ pc' = IF err' = "none" THEN "convert" ELSE "failed"
    /\ UNCHANGED <<num_levels, shape, X_in, heap, arr, res, idx, coeffs,
                   current, approx, wav_coeffs, level, levelIn, Xt>>
    /\ UNCHANGED vecVars

\* convert(X, numpy3D -> numpyflat): a reshaped view of the caller's buffer
Convert ==
    /\ pc = "convert"
    /\ arr' = [i \in 1..N |-> i]
    /\ res' = <<>>
    /\ idx' = 1
    /\ pc' = "loop"
    /\ UNCHANGED <<num_levels, shape, X_in, heap, err, coeffs, current,
                   approx, wav_coeffs, level, levelIn, Xt>>
    /\ UNCHANGED vecVars

\* for x in data: if num_levels == 0: res.append(x)
ZeroLevel ==
    /\ pc = "loop"
    /\ idx <= N
    /\ IsZeroLevels(num_levels)
    /\ res' = Append(res, arr[idx])
    /\ idx' = idx + 1
    /\ UNCHANGED <<num_levels, shape, X_in, heap, pc, err, arr, coeffs,
                   current, approx, wav_coeffs, level, levelIn, Xt>>
    /\ UNCHANGED vecVars

\* else: coeffs = []; current = x; approx = None
StartInstance ==
    /\ pc = "loop"
    /\ idx <= N
    /\ ~IsZeroLevels(num_levels)
    /\ heap' = Append(heap, <<>>)
    /\ coeffs' = Len(heap) + 1
    /\ current' = arr[idx]
    /\ approx' = 0
    /\ wav_coeffs' = 0
    /\ level' = 0
    /\ levelIn' = 0
    /\ pc' = "level"
    /\ UNCHANGED <<num_levels, shape, X_in, err, arr, res, idx, Xt>>
    /\ UNCHANGED vecVars

\* approx = get_approx(current); wav_coeffs = get_wavelet(current); current = approx
ComputeLevel ==
    /\ pc = "level"
    /\ level < num_levels.val
    /\ LET a == NewList(heap, current, GetApproxCoefficients(heap[current]))
           w == NewList(a.heap, current, GetWaveletCoefficients(heap[current]))
       IN /\ heap' = w.heap
          /\ approx' = a.ref
          /\ wav_coeffs' = w.ref
          /\ current' = a.ref
    /\ levelIn' = current
    /\ pc' = "extend"
    /\ UNCHANGED <<num_levels, shape, X_in, err, arr, res, idx, coeffs,
                   level, Xt>>
    /\ UNCHANGED vecVars

\* wav_coeffs.reverse(); coeffs.extend(wav_coeffs)
ExtendDetail ==
    /\ pc = "extend"
    /\ LET h1 == [heap EXCEPT ![wav_coeffs] = Reverse(@)]
       IN heap' = [h1 EXCEPT ![coeffs] = @ \o h1[wav_coeffs]]
    /\ level' = level + 1
    /\ pc' = "level"
    /\ UNCHANGED <<num_levels, shape, X_in, err, arr, res, idx, coeffs,
                   current, approx, wav_coeffs, levelIn, Xt>>
    /\ UNCHANGED vecVars

\* approx.reverse(); coeffs.extend(approx); coeffs.reverse(); res.append(coeffs)
\* The lists of this instance other than coeffs become unreachable and are
\* dropped from the heap.
Assemble ==
    /\ pc = "level"
    /\ level >= num_levels.val
    /\ approx # 0
    /\ LET h1 == [heap EXCEPT ![approx] = Reverse(@)]
           h2 == [h1 EXCEPT ![coeffs] = @ \o h1[approx]]
           h3 == [h2 EXCEPT ![coeffs] = Reverse(@)]
           keep == N + Len(res)
       IN /\ heap' = [k \in 1..(keep + 1) |->
                        IF k <= keep THEN h3[k] ELSE h3[coeffs]]
          /\ res' = Append(res, keep + 1)
    /\ idx' = idx + 1
    /\ coeffs' = 0 /\ current' = 0 /\ approx' = 0 /\ wav_coeffs' = 0
    /\ level' = 0
    /\ levelIn' = 0
    /\ pc' = "loop"
    /\ UNCHANGED <<num_levels, shape, X_in, err, arr, Xt>>
    /\ UNCHANGED vecVars

\* return res; np.asarray; reshape; return Xt
Finish ==
    /\ pc = "loop"
    /\ idx > N
    /\ Xt' = ReshapeTrailingOne([i \in 1..Len(res) |-> heap[res[i]]])
    /\ pc' = "done"
    /\ UNCHANGED <<num_levels, shape, X_in, heap, err, arr, res, idx, coeffs,
                   current, approx, wav_coeffs, level, levelIn>>
    /\ UNCHANGED vecVars

Next ==
    \/ DoCheckParameters
    \/ Convert
    \/ ZeroLevel
    \/ StartInstance
    \/ ComputeLevel
    \/ ExtendDetail
    \/ Assemble
    \/ Finish

Spec == Init /\ [][Next]_vars

\* ------------------------------------------------- wavelet transformer claims
\* the series of instance i as the transformer sees it
Row(i) == FlattenInstance(X_in[i])

NonNegativeInteger(p) == p.type \in {"int", "bool"} /\ p.val >= 0

NothingComputed ==
    /\ Len(heap) = N
    /\ res = <<>>
    /\ Xt = <<>>
    /\ coeffs = 0 /\ approx = 0 /\ wav_coeffs = 0 /\ levelIn = 0

\* C1: transform rejects every num_levels that is not a non-negative integer
\* before anything is computed (a non-integer with TypeError, a negative
\* integer with ValueError, no partial output), and accepts every non-negative
\* integer.
C1_ParametersChecked ==
    /\ (pc # "check" /\ ~NonNegativeInteger(num_levels)) =>
          /\ pc = "failed"
          /\ err = IF num_levels.type \in {"int", "bool"}
                   THEN "ValueError" ELSE "TypeError"
          /\ NothingComputed
    /\ NonNegativeInteger(num_levels) => (pc # "failed" /\ err = "none")
    /\ pc = "done" => NonNegativeInteger(num_levels)

C1_Witness ==
    /\ pc = "failed" /\ err = "ValueError"
    /\ num_levels = [type |-> "int", val |-> -1]
    /\ N = MaxInst

\* k-th approximation of x, and the detail coefficients of level k
RECURSIVE ApproxAt(_, _)
ApproxAt(x, k) ==
    IF k = 0 THEN x ELSE GetApproxCoefficients(ApproxAt(x, k - 1))

DetailAt(x, k) == GetWaveletCoefficients(ApproxAt(x, k - 1))

RECURSIVE DetailsUpTo(_, _)
DetailsUpTo(x, k) ==
    IF k = 0 THEN <<>> ELSE DetailsUpTo(x, k - 1) \o DetailAt(x, k)

\* detail levels 1..L in increasing level order, then the approximation of L
ClaimedOrder(x, L) == DetailsUpTo(x, L) \o ApproxAt(x, L)

\* C2: for L >= 1 the vector returned for an instance lists the detail
\* coefficients of level 1 first, then levels 2..L, and the approximation of
\* level L last, each block in increasing index order.
C2_DetailFirstOrder ==
    (pc \in {"loop", "done"} /\ ~IsZeroLevels(num_levels)) =>
        \A i \in 1..Len(res) : heap[res[i]] = ClaimedOrder(Row(i), num_levels.val)

\* C3: with num_levels = 0 no coefficient is computed and transform returns
\* every instance's input series: same values, same order, same length.
C3_ZeroLevelIdentity ==
    (num_levels.type \in {"int", "bool"} /\ num_levels.val = 0) =>
        /\ pc \notin {"level", "extend", "failed"}
        /\ Len(heap) = N
        /\ pc = "done" =>
              /\ Len(Xt) = N
              /\ \A i \in 1..N : FlattenInstance(Xt[i]) = Row(i)

C3_Witness ==
    /\ pc = "done"
    /\ num_levels = [type |-> "int", val |-> 0]
    /\ N = MaxInst
    /\ shape[2] = 1 /\ shape[3] >= 3
    /\ Row(1) # Reverse(Row(1))

LevelLen(n) == IF n = 1 THEN 1 ELSE n \div 2

\* C4: one decomposition level of an input of length n >= 1 yields an
\* approximation and a detail vector of the same length, floor(n/2) for
\* n >= 2 and 1 for n = 1; neither is ever empty.
C4_LevelLengths ==
    pc = "extend" =>
        LET n == Len(heap[levelIn])
        IN /\ n >= 1
           /\ Len(heap[approx]) = LevelLen(n)
           /\ Len(heap[wav_coeffs]) = LevelLen(n)
           /\ Len(heap[approx]) >= 1

C4_Witness ==
    /\ pc = "extend"
    /\ level >= 1
    /\ Len(heap[levelIn]) = 1
    /\ Len(Row(idx)) = 3

\* (a +- d) * sqrt(2) / 2
HalfSqrt2Times(a) == Half(MulSqrt2(a))

PairRecovered(in, a, d, i) ==
    /\ in[2 * i - 1] = HalfSqrt2Times(Add(a[i], d[i]))
    /\ (2 * i <= Len(in)) => in[2 * i] = HalfSqrt2Times(Sub(a[i], d[i]))

\* C5 as stated: at every level, also one whose input has length 1, every
\* index i of the level's output recovers the input pair:
\* arr[2i] = (approx[i] + detail[i]) * sqrt(2)/2 and
\* arr[2i+1] = (approx[i] - detail[i]) * sqrt(2)/2.
C5_RecoverEveryLevel ==
    pc = "extend" =>
        \A i \in 1..Len(heap[approx]) :
            PairRecovered(heap[levelIn], heap[approx], heap[wav_coeffs], i)

\* C5 amended: the pair is recovered at every level whose input has length
\* n >= 2, for every i < floor(n/2); at a level whose input has length 1 both
\* outputs are [arr[0]] and arr[0] is recovered only if it is 0.
C5_RecoverPairedLevels ==
    pc = "extend" =>
        LET in == heap[levelIn]
            a == heap[approx]
            d == heap[wav_coeffs]
        IN /\ Len(in) >= 2 =>
                 \A i \in 1..(Len(in) \div 2) :
                     /\ in[2 * i - 1] = HalfSqrt2Times(Add(a[i], d[i]))
                     /\ in[2 * i] = HalfSqrt2Times(Sub(a[i], d[i]))
           /\ Len(in) = 1 =>
                 /\ a = <<in[1]>> /\ d = <<in[1]>>
                 /\ PairRecovered(in, a, d, 1) <=> in[1] = <<0, 0>>

C5_Witness ==
    /\ pc = "extend"
    /\ level = 1
    /\ Len(heap[levelIn]) = 2
    /\ heap[levelIn][1] # heap[levelIn][2]
    /\ heap[wav_coeffs][1] # <<0, 0>>

\* C7: transform returns one coefficient vector per instance, in instance
\* order, in a 3-dimensional container of shape (instances, 1, coefficient
\* length).
C7_OutputShape ==
    pc = "done" =>
        /\ Len(Xt) = N
        /\ \A i \in 1..N : Len(Xt[i]) = 1 /\ Xt[i][1] = heap[res[i]]

\* C8: after transform returns or fails the caller's data holds the same
\* values in the same order, and the lists reversed in place (wav_coeffs,
\* approx, coeffs) are lists allocated during the call, never input rows.
C8_InputNotMutated ==
    /\ \A i \in 1..N : heap[i] = Row(i)
    /\ coeffs \notin 1..N
    /\ approx \notin 1..N
    /\ wav_coeffs \notin 1..N

C8_Witness ==
    /\ pc = "done"
    /\ num_levels.val >= 2
    /\ shape[3] = 1
    /\ Len(Xt[1]) = num_levels.val + 1

ProbeValues == { <<p * Scale, 0>> : p \in (-1)..2 }

\* C9: a level whose input has odd length n > 1 drops the last element: its
\* outputs are those of the length n-1 prefix, whatever the last element is.
C9_OddTailDropped ==
    pc = "extend" =>
        LET in == heap[levelIn]
            n == Len(in)
            pre == SubSeq(in, 1, n - 1)
        IN (n > 1 /\ n % 2 = 1) =>
              /\ heap[approx] = GetApproxCoefficients(pre)
              /\ heap[wav_coeffs] = GetWaveletCoefficients(pre)
              /\ \A v \in ProbeValues :
                    /\ GetApproxCoefficients(Append(pre, v)) = heap[approx]
                    /\ GetWaveletCoefficients(Append(pre, v)) = heap[wav_coeffs]

C9_Witness ==
    /\ pc = "extend"
    /\ level = 1
    /\ Len(heap[levelIn]) = 3
    /\ heap[levelIn][3] # <<0, 0>>

RECURSIVE LenAt(_, _)
LenAt(n, k) == IF k = 0 THEN n ELSE LevelLen(LenAt(n, k - 1))

RECURSIVE SumLens(_, _)
SumLens(n, k) == IF k = 0 THEN 0 ELSE SumLens(n, k - 1) + LenAt(n, k)

\* C10: for a series of length n >= 1 and L >= 1 the coefficient vector has
\* len_1 + ... + len_L + len_L elements; n elements when n is a multiple of
\* 2^L; and a length-1 series [a] yields L+1 copies of a.
C10_OutputLength ==
    (pc \in {"loop", "done"} /\ ~IsZeroLevels(num_levels)) =>
        \A i \in 1..Len(res) :
            LET L == num_levels.val
                n == Len(Row(i))
                out == heap[res[i]]
            IN /\ Len(out) = SumLens(n, L) + LenAt(n, L)
               /\ (n % Pow2(L) = 0) => Len(out) = n
               /\ (n = 1) => out = [k \in 1..(L + 1) |-> Row(i)[1]]
               /\ pc = "done" => Len(FlattenInstance(Xt[i])) = Len(out)

C10_Witness ==
    /\ pc = "done"
    /\ num_levels = [type |-> "int", val |-> 2]
    /\ FlatLen = 4
    /\ Len(heap[res[N]]) = 4

\* ----------------------------------------------- vectorization of forecasters
\* n_instances of test_vectorization_series_to_panel
n_instances == 10

MaxTimepoints == 2
MaxHorizon == 3

PANEL_MTYPES == {"pd-multiindex", "nested_univ", "numpy3D"}

\* a series is a sequence of <<time index, value>> observations
\* _make_panel_X: nested_univ, one column, RangeIndex 0..T-1 in every cell
MakePanelX(n, T) ==
    [i \in 1..n |-> [var_0 |-> [t \in 1..T |-> <<t - 1, 10 * i + t>>]]]

RECURSIVE Concat(_)
Concat(ss) == IF ss = <<>> THEN <<>> ELSE Head(ss) \o Concat(Tail(ss))

\* the panel holding the given series, one per instance, as mtype
PanelOf(series, mtype) ==
    IF mtype = "nested_univ"
    THEN [i \in 1..Len(series) |-> [var_0 |-> series[i]]]
    ELSE IF mtype = "numpy3D"
    THEN [i \in 1..Len(series) |->
            <<[t \in 1..Len(series[i]) |-> series[i][t][2]]>>]
    ELSE Concat([i \in 1..Len(series) |->
            [t \in 1..Len(series[i]) |->
                [instances |-> i - 1,
                 timepoints |-> series[i][t][1],
                 var_0 |-> series[i][t][2]]]])

RowsOf(y, inst) == SelectSeq(y, LAMBDA r : r.instances = inst)

InstanceIds(y) == { y[k].instances : k \in 1..Len(y) }

\* the series of every instance of a panel held as mtype, in instance order
SeriesOf(y, mtype) ==
    IF mtype = "nested_univ"
    THEN [i \in 1..Len(y) |-> y[i].var_0]
    ELSE IF mtype = "numpy3D"
    THEN [i \in 1..Len(y) |-> [t \in 1..Len(y[i][1]) |-> <<t - 1, y[i][1][t]>>]]
    ELSE [i \in 1..Cardinality(InstanceIds(y)) |->
            [t \in 1..Len(RowsOf(y, i - 1)) |->
                <<RowsOf(y, i - 1)[t].timepoints, RowsOf(y, i - 1)[t].var_0>>]]

\* convert(y, from_type="nested_univ", to_type=mtype)
ConvertFromNested(y, mtype) == PanelOf(SeriesOf(y, "nested_univ"), mtype)

AllSameLength(series) ==
    \A i, j \in 1..Len(series) : Len(series[i]) = Len(series[j])

\* check_is_mtype(obj, mtype, return_metadata=True)
CheckIsMtype(obj, mtype) ==
    LET series == SeriesOf(obj, mtype)
        wellFormed ==
            IF mtype = "pd-multiindex"
            THEN /\ InstanceIds(obj) = 0..(Cardinality(InstanceIds(obj)) - 1)
                 /\ \A k \in 1..(Len(obj) - 1) :
                       \/ obj[k].instances < obj[k + 1].instances
                       \/ /\ obj[k].instances = obj[k + 1].instances
                          /\ obj[k].timepoints < obj[k + 1].timepoints
            ELSE IF mtype = "numpy3D"
            THEN \A i \in 1..Len(obj) :
                    Len(obj[i]) = 1 /\ Len(obj[i][1]) = Len(obj[1][1])
            ELSE TRUE
    IN [valid |-> wellFormed,
        n_instances |-> Len(series),
        is_equal_length |-> AllSameLength(series)]

\* one fitted clone of the estimator: what it keeps of its series
FitSeries(s) == [cutoff |-> s[Len(s)][1], last |-> s[Len(s)][2]]

PredictSeriesShort(f, fh) ==
    [k \in 1..(Len(fh) - 1) |-> <<f.cutoff + fh[k], f.last>>]

\* forecast of one fitted clone: one value per step of the horizon
PredictSeries(f, fh) == [k \in 1..Len(fh) |-> <<f.cutoff + fh[k], f.last>>]

ReassembleDroppingLast(preds, mtype) ==
    PanelOf(SubSeq(preds, 1, Len(preds) - 1), mtype)

\* the broadcaster's result container
Reassemble(preds, mtype) == PanelOf(preds, mtype)

DwtIdle ==
    /\ num_levels = [type |-> "int", val |-> 0]
    /\ shape = <<0, 0, 0>>
    /\ X_in = <<>>
    /\ heap = <<>>
    /\ pc = "idle"
    /\ err = "none"
    /\ arr = <<>>
    /\ res = <<>>
    /\ idx = 0
    /\ coeffs = 0 /\ current = 0 /\ approx = 0 /\ wav_coeffs = 0
    /\ level = 0
    /\ levelIn = 0
    /\ Xt = <<>>

\* y = _make_panel_X(n_instances); the test's mtype parameter; the horizon
VecInit ==
    /\ DwtIdle
    /\ v_pc = "make"
    /\ v_mtype \in PANEL_MTYPES
    /\ v_fh \in { [k \in 1..h |-> k] : h \in 1..MaxHorizon }
    /\ \E n \in 1..n_instances, T \in 1..MaxTimepoints : v_y = MakePanelX(n, T)
    /\ v_series = <<>>
    /\ v_i = 0
    /\ v_fitted = <<>>
    /\ v_preds = <<>>
    /\ v_pred = <<>>
    /\ v_meta = <<>>
    /\ v_err = 0

\* y = convert(y, from_type="nested_univ", to_type=mtype)
VConvertInput ==
    /\ v_pc = "make"
    /\ v_y' = ConvertFromNested(v_y, v_mtype)
    /\ v_pc' = "fit"
    /\ UNCHANGED <<v_mtype, v_fh, v_series, v_i, v_fitted, v_preds, v_pred,
                   v_meta, v_err>>
    /\ UNCHANGED dwtVars

\* fit(y): the panel is split into one series per instance
VSplit ==
    /\ v_pc = "fit"
    /\ v_series' = SeriesOf(v_y, v_mtype)
    /\ v_i' = 1
    /\ v_pc' = "fitting"
    /\ UNCHANGED <<v_mtype, v_fh, v_y, v_fitted, v_preds, v_pred, v_meta,
                   v_err>>
    /\ UNCHANGED dwtVars

\* one clone of the estimator is fitted to the series of instance v_i
VFitInstance ==
    /\ v_pc = "fitting"
    /\ v_i <= Len(v_series)
    /\ v_fitted' = Append(v_fitted, FitSeries(v_series[v_i]))
    /\ v_i' = v_i + 1
    /\ UNCHANGED <<v_pc, v_mtype, v_fh, v_y, v_series, v_preds, v_pred,
                   v_meta, v_err>>
    /\ UNCHANGED dwtVars

\* the estimator fails on instance v_i: the whole operation fails
VFitFails ==
    /\ v_pc = "fitting"
    /\ v_i <= Len(v_series)
    /\ v_err' = v_i
    /\ v_pc' = "failed"
    /\ UNCHANGED <<v_mtype, v_fh, v_y, v_series, v_i, v_fitted, v_preds,
                   v_pred, v_meta>>
    /\ UNCHANGED dwtVars

\* fit returns; predict([1, 2, 3]) starts
VStartPredict ==
    /\ v_pc = "fitting"
    /\ v_i > Len(v_series)
    /\ v_i' = 1
    /\ v_pc' = "predicting"
    /\ UNCHANGED <<v_mtype, v_fh, v_y, v_series, v_fitted, v_preds, v_pred,
                   v_meta, v_err>>
    /\ UNCHANGED dwtVars

VPredictInstance ==
    /\ v_pc = "predicting"
    /\ v_i <= Len(v_fitted)
    /\ v_preds' = Append(v_preds, PredictSeries(v_fitted[v_i], v_fh))
    /\ v_i' = v_i + 1
    /\ UNCHANGED <<v_pc, v_mtype, v_fh, v_y, v_series, v_fitted, v_pred,
                   v_meta, v_err>>
    /\ UNCHANGED dwtVars

VPredictFails ==
    /\ v_pc = "predicting"
    /\ v_i <= Len(v_fitted)
    /\ v_err' = v_i
    /\ v_pc' = "failed"
    /\ UNCHANGED <<v_mtype, v_fh, v_y, v_series, v_i, v_fitted, v_preds,
                   v_pred, v_meta>>
    /\ UNCHANGED dwtVars

\* the per-instance forecasts are put back into one panel of the input's mtype
VReassemble ==
    /\ v_pc = "predicting"
    /\ v_i > Len(v_fitted)
    /\ v_pred' = Reassemble(v_preds, v_mtype)
    /\ v_pc' = "returned"
    /\ UNCHANGED <<v_mtype, v_fh, v_y, v_series, v_i, v_fitted, v_preds,
                   v_meta, v_err>>
    /\ UNCHANGED dwtVars

\* valid, _, metadata = check_is_mtype(y_pred, mtype, return_metadata=True)
VCheckIsMtype ==
    /\ v_pc = "returned"
    /\ v_meta' = CheckIsMtype(v_pred, v_mtype)
    /\ v_pc' = "checked"
    /\ UNCHANGED <<v_mtype, v_fh, v_y, v_series, v_i, v_fitted, v_preds,
                   v_pred, v_err>>
    /\ UNCHANGED dwtVars

VecNext ==
    \/ VConvertInput
    \/ VSplit
    \/ VFitInstance
    \/ VFitFails
    \/ VStartPredict
    \/ VPredictInstance
    \/ VPredictFails
    \/ VReassemble
    \/ VCheckIsMtype

VecSpec == VecInit /\ [][VecNext]_vars

\* C6: fitting a single-series forecaster on a panel of N instances held as
\* any of the three mtypes and predicting h steps returns a panel valid under
\* the input's mtype, with N instances, equal length, every forecast of
\* length h.
C6_VectorizedForecast ==
    /\ v_pc \in {"returned", "checked"} =>
          LET out == SeriesOf(v_pred, v_mtype)
          IN /\ Len(out) = CheckIsMtype(v_y, v_mtype).n_instances
             /\ \A i \in 1..Len(out) : Len(out[i]) = Len(v_fh)
    /\ v_pc = "checked" =>
          /\ v_meta.valid
          /\ v_meta.n_instances = CheckIsMtype(v_y, v_mtype).n_instances
          /\ v_meta.is_equal_length

C6_Witness ==
    /\ v_pc = "checked"
    /\ v_mtype = "pd-multiindex"
    /\ v_meta.n_instances = n_instances
    /\ Len(v_fh) = 3
    /\ Len(v_pred) = 3 * n_instances

====
